---- MODULE Spec2Model ----
(***************************************************************************)
(* A model of the YouTube-to-text transcriber: the credential resolver     *)
(* (environment.Environment and the Environment of main.py), the           *)
(* transcription pipeline (transformers.Transcript and the Transcript of   *)
(* main.py), and the three files they touch: the .env configuration file,  *)
(* the downloaded audio file and the transcript file.                      *)
(*                                                                         *)
(* Strings whose content matters (credentials, transcripts, file contents) *)
(* are sequences of one-character strings.  File paths are plain strings.  *)
(* The external collaborators (python-dotenv, the openai client, pytube,   *)
(* the operator at the prompt) are modelled by what they do at the call    *)
(* site; their inputs and outcomes are drawn nondeterministically.         *)
(* Files are modelled with the POSIX line separator (os.linesep = "\n"),   *)
(* the platform main.py's cleanup (_delete_audio_linux) runs on, and the   *)
(* working directory is the directory of the scripts, so that the .env     *)
(* file load_dotenv finds is the one _save_api_key writes.                 *)
(***************************************************************************)
EXTENDS Integers, Sequences, FiniteSets, TLC

\* ---------------------------------------------------------------- bounds
MaxKeyLen == 2          \* longest credential string explored
MaxTextLen == 1         \* longest transcript text explored
MaxRuns == 2            \* processes started one after the other
MaxPrompts == 2         \* the count of repeated path prompts stops growing here

\* ------------------------------------------------------------ characters
Q == "\""               \* the double quote
LF == "\n"              \* line feed
CR == "\r"              \* carriage return
KEYEQ == "OPENAI_API_KEY="       \* the text before the value in the .env line

None == << "<None>" >>           \* Python's None
NoFile == << "<absent>" >>       \* the content of a path that does not exist

SeqsUpTo(S, n) == UNION { [1..m -> S] : m \in 0..n }

KeyChars == {"a", Q}
Keys == SeqsUpTo(KeyChars, MaxKeyLen)        \* strings passed or typed as a credential
RunKeys == { << >>, <<"a">> }                \* the credentials explored along with the pipeline
ShellKeys == { <<"s">> }                     \* OPENAI_API_KEY exported by the operator's shell
TextChars == {"x", CR}
Texts == SeqsUpTo(TextChars, MaxTextLen)     \* texts the transcription service returns
OldTranscript == <<"o", "l", "d", LF>>       \* a transcript file left by an earlier use

DL == "audio.mp4"                            \* where pytube downloads the audio stream
Paths == {"", DL, "other.mp3"}               \* audio paths passed or typed
Impls == {"transformers", "main"}            \* the two variants of the program

VARIABLES
    impl,               \* which variant runs: transformers.py + environment.py, or main.py
    shell_key,          \* OPENAI_API_KEY of the shell that starts each process (None: unset)
    fs_env,             \* content of the .env file (NoFile: absent)
    fs_transcript,      \* content of the transcript file (NoFile: absent)
    fs_audio,           \* the audio paths that exist on disk
    environ_key,        \* os.environ["OPENAI_API_KEY"] of the running process
    env_file_exists,    \* Environment.env_file_exists
    API_KEY,            \* Environment._API_KEY
    openai_api_key,     \* openai.api_key
    video,              \* Transcript.video / _video is set
    audio_filepath,     \* Transcript.audio_filepath / _audio_filepath
    transcript,         \* Transcript._transcript
    handle_open,        \* the audio file object of the transcription step is open
    pc,                 \* position of the running public call ("idle": none running)
    op,                 \* the public call running or last run
    remove_audio,       \* argument remove_audio of that call
    outcome,            \* how the service call of that call went
    result,             \* terminal state of the last orchestrated call
    runs,               \* processes started so far
    lastSet,            \* the last set_openai_api_key call of this process
    priorKey,           \* credential last resolved by an earlier process (None: none)
    envAtStart,         \* content of .env when this process constructed its Environment
    fileBefore,         \* transcript file content when the running call began
    saved,              \* save_transcript was invoked by the running call
    prompts,            \* times the running call asked again for an audio path
    calls               \* times the running call invoked the transcription service

vars == << impl, shell_key, fs_env, fs_transcript, fs_audio, environ_key,
           env_file_exists, API_KEY, openai_api_key, video, audio_filepath,
           transcript, handle_open, pc, op, remove_audio, outcome, result,
           runs, lastSet, priorKey, envAtStart, fileBefore, saved,
           prompts, calls >>

fsVars == << fs_env, fs_transcript, fs_audio >>
credVars == << environ_key, env_file_exists, API_KEY, openai_api_key >>
fixedVars == << impl, shell_key >>

\* ------------------------------------------------------ the .env file
\* _save_api_key: print(f'OPENAI_API_KEY="{self._API_KEY}"', file=file)
Str(k) == IF k = None THEN <<"N", "o", "n", "e">> ELSE k
EnvLine(k) == <<KEYEQ, Q>> \o Str(k) \o <<Q, LF>>

\* Position of the first double quote of s at or after position i (0: none).
RECURSIVE FirstQuote(_, _)
FirstQuote(s, i) ==
    IF i > Len(s) THEN 0
    ELSE IF s[i] = Q THEN i
    ELSE FirstQuote(s, i + 1)

\* python-dotenv's parse of the file: the value bound to OPENAI_API_KEY, or
\* None when the file is absent or its line does not parse.  A double-quoted
\* value ends at the next double quote, and the end of the line must follow;
\* anything else after the closing quote makes the line an error and no
\* variable is bound.
ParseDotenv(content) ==
    IF content = NoFile \/ Len(content) < 4 THEN None
    ELSE IF content[1] # KEYEQ \/ content[2] # Q THEN None
    ELSE LET j == FirstQuote(content, 3) IN
         IF j = 0 THEN None
         ELSE IF j + 1 = Len(content) /\ content[j + 1] = LF
              THEN SubSeq(content, 3, j - 1)
              ELSE None

\* load_dotenv(): True iff the file bound a variable; a variable the process
\* environment already holds is not overridden (override=False).
LoadDotenv(content, env) ==
    LET parsed == ParseDotenv(content) IN
    [ loaded |-> parsed # None,
      env |-> IF env # None THEN env ELSE parsed ]

\* Environment.__init__: _API_KEY after construction.
InitialApiKey(i, env) ==
    IF i = "transformers" THEN << >>
    ELSE IF env = None THEN << >> ELSE env

\* ------------------------------------------------------------- Init
NoSet == [ called |-> FALSE, arg |-> << >>, prompted |-> FALSE,
           input |-> << >>, prev |-> << >> ]

\* The state after Transcript() in the first process, over the files and the
\* shell environment it finds; K is the set of credentials explored.  The
\* openai module takes its api_key from the process environment when it is
\* imported, which is before load_dotenv runs.
InitOver(K) ==
    /\ impl \in Impls
    /\ shell_key \in {None} \cup ShellKeys
    /\ fs_env \in {NoFile} \cup { EnvLine(k) : k \in K }
    /\ fs_transcript \in {NoFile, OldTranscript}
    /\ fs_audio \in SUBSET {"other.mp3"}
    /\ environ_key = LoadDotenv(fs_env, shell_key).env
    /\ env_file_exists = LoadDotenv(fs_env, shell_key).loaded
    /\ API_KEY = InitialApiKey(impl, environ_key)
    /\ openai_api_key = shell_key
    /\ video = FALSE
    /\ audio_filepath = ""
    /\ transcript = None
    /\ handle_open = FALSE
    /\ pc = "idle"
    /\ op = "none"
    /\ remove_audio = FALSE
    /\ outcome = "none"
    /\ result = "NONE"
    /\ runs = 1
    /\ lastSet = NoSet
    /\ priorKey = None
    /\ envAtStart = fs_env
    /\ fileBefore = fs_transcript
    /\ saved = FALSE
    /\ prompts = 0
    /\ calls = 0

\* ------------------------------------------------- a new process starts
\* The process ends and the operator starts the program again: a fresh
\* Transcript() (and so a fresh Environment()) over the files left on disk.
NewProcess ==
    /\ pc = "idle"
    /\ runs < MaxRuns
    /\ runs' = runs + 1
    /\ environ_key' = LoadDotenv(fs_env, shell_key).env
    /\ env_file_exists' = LoadDotenv(fs_env, shell_key).loaded
    /\ API_KEY' = InitialApiKey(impl, environ_key')
    /\ openai_api_key' = shell_key
    /\ video' = FALSE
    /\ audio_filepath' = ""
    /\ transcript' = None
    /\ handle_open' = FALSE
    /\ op' = "none"
    /\ remove_audio' = FALSE
    /\ outcome' = "none"
    /\ result' = "NONE"
    /\ priorKey' = IF lastSet.called THEN API_KEY ELSE priorKey
    /\ lastSet' = NoSet
    /\ envAtStart' = fs_env
    /\ fileBefore' = fs_transcript
    /\ saved' = FALSE
    /\ prompts' = 0
    /\ calls' = 0
    /\ UNCHANGED << fixedVars, fsVars, pc >>

\* ------------------------------------------------- set_openai_api_key
\* The operator is asked for a key: no key passed and load_dotenv loaded nothing.
PromptNeeded(arg, loaded) == arg = << >> /\ ~loaded

ResolveKey_FileFirst(i, arg, loaded, env, cur, inp) ==
    IF loaded THEN (IF i = "transformers" THEN env ELSE cur)
    ELSE IF arg # << >> THEN arg
    ELSE inp

\* The credential the call resolves.  environment.py takes the process
\* environment's value when the file was loaded; main.py keeps the value the
\* Environment already holds.
ResolveKey(i, arg, loaded, env, cur, inp) ==
    IF arg # << >> THEN arg
    ELSE IF loaded THEN (IF i = "transformers" THEN env ELSE cur)
    ELSE inp

SaveApiKey_Append(i, content, k) ==
    IF i # "transformers" THEN content
    ELSE IF content = NoFile THEN EnvLine(k)
    ELSE content \o EnvLine(k)

\* Content of .env after the call: environment.py rewrites it, main.py has no
\* _save_api_key and leaves it alone.
SaveApiKey(i, content, k) ==
    IF i = "transformers" THEN EnvLine(k) ELSE content

ActiveKey_Stale(k, old) == old

\* openai.api_key after the call: openai.api_key = self.get_api_key()
ActiveKey(k, old) == k

\* Transcript.set_api_key(api_key) -> Environment.set_openai_api_key(api_key),
\* the key passed and the operator's answer drawn from K.
SetApiKeyOver(K) ==
    /\ pc = "idle"
    /\ \E arg \in K :
       \E inp \in (IF PromptNeeded(arg, env_file_exists) THEN K ELSE {<< >>}) :
         LET k == ResolveKey(impl, arg, env_file_exists, environ_key, API_KEY, inp) IN
         /\ API_KEY' = k
         /\ openai_api_key' = ActiveKey(k, openai_api_key)
         /\ fs_env' = SaveApiKey(impl, fs_env, k)
         /\ lastSet' = [ called |-> TRUE, arg |-> arg,
                         prompted |-> PromptNeeded(arg, env_file_exists),
                         input |-> inp, prev |-> API_KEY ]
    /\ UNCHANGED << fixedVars, fs_transcript, fs_audio, environ_key,
                    env_file_exists, video, audio_filepath, transcript,
                    handle_open, pc, op, remove_audio, outcome, result, runs,
                    priorKey, envAtStart, fileBefore, saved, prompts, calls >>

\* ------------------------------------------------- the pipeline
pipeVars == << credVars, fixedVars, fs_env, runs, lastSet, priorKey, envAtStart >>

\* transcribe_yt_video(video_url, remove_audio): create the video if there
\* is none (or a url was passed), download its audio, then run
\* transcribe_audio_file on the downloaded path.  A failure of the video
\* lookup or of the download propagates.
TranscribeYtVideo ==
    /\ pc = "idle"
    /\ impl = "transformers"
    /\ \E rm \in BOOLEAN, url \in BOOLEAN,
          fetch \in {"ok", "create_failed", "download_failed"} :
         /\ fetch = "create_failed" => (~video \/ url)
         /\ op' = "yt"
         /\ remove_audio' = rm
         /\ outcome' = "none"
         /\ fileBefore' = fs_transcript
         /\ saved' = FALSE
         /\ prompts' = 0
         /\ calls' = 0
         /\ video' = IF fetch = "create_failed" THEN video ELSE TRUE
         /\ IF fetch = "ok"
            THEN /\ fs_audio' = fs_audio \cup {DL}
                 /\ audio_filepath' = DL
                 /\ pc' = "verify"
                 /\ result' = "RUNNING"
            ELSE /\ UNCHANGED << fs_audio, audio_filepath, pc >>
                 /\ result' = "FETCH_FAILED"
    /\ UNCHANGED << pipeVars, fs_transcript, transcript, handle_open >>

\* main.py transcribe_video: the same, with the transcription step inline
\* (no check of the path) and the audio always removed.
TranscribeVideo ==
    /\ pc = "idle"
    /\ impl = "main"
    /\ \E url \in BOOLEAN, fetch \in {"ok", "create_failed", "download_failed"} :
         /\ fetch = "create_failed" => (~video \/ url)
         /\ op' = "video"
         /\ remove_audio' = TRUE
         /\ outcome' = "none"
         /\ fileBefore' = fs_transcript
         /\ saved' = FALSE
         /\ prompts' = 0
         /\ calls' = 0
         /\ video' = IF fetch = "create_failed" THEN video ELSE TRUE
         /\ IF fetch = "ok"
            THEN /\ fs_audio' = fs_audio \cup {DL}
                 /\ audio_filepath' = DL
                 /\ pc' = "open"
                 /\ result' = "RUNNING"
            ELSE /\ UNCHANGED << fs_audio, audio_filepath, pc >>
                 /\ result' = "FETCH_FAILED"
    /\ UNCHANGED << pipeVars, fs_transcript, transcript, handle_open >>

\* The path transcribe_audio_file starts from.
FirstAudioPath(cur, arg, inp) ==
    IF cur = "" /\ arg = "" THEN inp
    ELSE IF arg # "" THEN arg
    ELSE cur

\* transcribe_audio_file(audio_filepath) called directly.
TranscribeAudioFile ==
    /\ pc = "idle"
    /\ impl = "transformers"
    /\ \E arg \in Paths :
       \E inp \in (IF audio_filepath = "" /\ arg = "" THEN Paths ELSE {""}) :
         audio_filepath' = FirstAudioPath(audio_filepath, arg, inp)
    /\ op' = "file"
    /\ remove_audio' = FALSE
    /\ outcome' = "none"
    /\ result' = "RUNNING"
    /\ fileBefore' = fs_transcript
    /\ saved' = FALSE
    /\ prompts' = 0
    /\ calls' = 0
    /\ pc' = "verify"
    /\ UNCHANGED << pipeVars, fs_transcript, fs_audio, video, transcript,
                    handle_open >>

Exists_Nonempty(path, files) == path # ""

\* os.path.exists(path)
Exists(path, files) == path \in files

\* while not os.path.exists(self.audio_filepath): ask for a new path
VerifyAudioPath ==
    /\ pc = "verify"
    /\ IF Exists(audio_filepath, fs_audio)
       THEN /\ pc' = "open"
            /\ UNCHANGED << audio_filepath, prompts >>
       ELSE /\ \E inp \in Paths : audio_filepath' = inp
            /\ prompts' = IF prompts < MaxPrompts THEN prompts + 1 ELSE prompts
            /\ UNCHANGED pc
    /\ UNCHANGED << pipeVars, fs_transcript, fs_audio, video, transcript,
                    handle_open, op, remove_audio, outcome, result,
                    fileBefore, saved, calls >>

\* audio_file = open(audio_filepath, 'rb')
OpenAudio ==
    /\ pc = "open"
    /\ handle_open' = TRUE
    /\ pc' = "call"
    /\ UNCHANGED << pipeVars, fs_transcript, fs_audio, video, audio_filepath,
                    transcript, op, remove_audio, outcome, result,
                    fileBefore, saved, prompts, calls >>

\* The service accepts a request only with a credential: no key or an empty
\* key is answered with an authentication error (or the call fails otherwise).
Usable(k) == k # None /\ k # << >>

AfterCall_NoElse(o) == "else"

\* try / except AuthenticationError / else / finally: where control goes
\* after the service call.
AfterCall(o) == IF o = "ok" THEN "else" ELSE "finally"

\* openai.Audio.transcribe("whisper-1", file=audio_file).get("text")
CallService ==
    /\ pc = "call"
    /\ \E o \in {"ok", "auth", "error"} :
         /\ o = "ok" => Usable(openai_api_key)
         /\ outcome' = o
         /\ calls' = calls + 1
         /\ pc' = AfterCall(o)
         /\ IF o = "ok"
            THEN \E t \in Texts : transcript' = t
            ELSE UNCHANGED transcript
    /\ UNCHANGED << pipeVars, fs_transcript, fs_audio, video, audio_filepath,
                    handle_open, op, remove_audio, result, fileBefore, saved,
                    prompts >>

PrintLine_Write(t) == t

\* print(x, file=file): the text and one newline
PrintLine(t) == t \o <<LF>>

WriteFile_Append(old, data) == IF old = NoFile THEN data ELSE old \o data

\* open(path, "w"): the file is truncated, then holds what is written
WriteFile(old, data) == data

\* save_transcript() in the else clause (main.py prints the transcript to the
\* operator as well).  Opening the output file may fail, and that propagates.
SaveTranscript ==
    /\ pc = "else"
    /\ saved' = TRUE
    /\ \E io \in {"ok", "oserror"} :
         IF io = "ok"
         THEN /\ fs_transcript' = WriteFile(fs_transcript, PrintLine(transcript))
              /\ UNCHANGED outcome
         ELSE /\ outcome' = "save_error"
              /\ UNCHANGED fs_transcript
    /\ pc' = "finally"
    /\ UNCHANGED << pipeVars, fs_audio, video, audio_filepath, transcript,
                    handle_open, op, remove_audio, result, fileBefore,
                    prompts, calls >>

\* The terminal state an outcome of the transcription step leads to.
Terminal(o) ==
    IF o = "ok" THEN "TRANSCRIBED"
    ELSE IF o = "auth" THEN "AUTH_FAILED"
    ELSE "RAISED"

\* An exception is propagating out of the transcription step.
Propagates(o) == o \in {"error", "save_error"}

Closed_NotFinally(h, o) == IF o \in {"error", "save_error"} THEN h ELSE FALSE

\* The handle after the finally clause: audio_file.close()
Closed(h, o) == FALSE

Removes_OnSuccessOnly(i, o, call, rm) ==
    IF i = "main" THEN o = "ok"
    ELSE o = "ok" /\ call = "yt" /\ rm

\* Whether the audio is removed once the transcription step is over.
\* main.py removes it inside the finally clause, on every path;
\* transcribe_yt_video removes it after transcribe_audio_file returned, when
\* remove_audio is set.
Removes(i, o, call, rm) ==
    IF i = "main" THEN TRUE
    ELSE ~Propagates(o) /\ call = "yt" /\ rm

\* finally: audio_file.close(); then the exception, if any, goes on to the
\* caller, or the step returns.
CloseAudio ==
    /\ pc = "finally"
    /\ handle_open' = Closed(handle_open, outcome)
    /\ IF Removes(impl, outcome, op, remove_audio)
       THEN /\ pc' = "delete"
            /\ UNCHANGED result
       ELSE /\ pc' = "idle"
            /\ result' = Terminal(outcome)
    /\ UNCHANGED << pipeVars, fs_transcript, fs_audio, video, audio_filepath,
                    transcript, op, remove_audio, outcome, fileBefore, saved,
                    prompts, calls >>

\* os.remove(filepath) / rm -f ./"<filename>"
RemoveFile(files, path) == files \ {path}

\* delete_file(self.audio_filepath) / _delete_audio_linux()
DeleteAudio ==
    /\ pc = "delete"
    /\ fs_audio' = RemoveFile(fs_audio, audio_filepath)
    /\ pc' = "idle"
    /\ result' = Terminal(outcome)
    /\ UNCHANGED << pipeVars, fs_transcript, video, audio_filepath, transcript,
                    handle_open, op, remove_audio, outcome, fileBefore, saved,
                    prompts, calls >>

Init == InitOver(RunKeys)
SetApiKey == SetApiKeyOver(RunKeys)

Next ==
    \/ NewProcess
    \/ SetApiKey
    \/ TranscribeYtVideo
    \/ TranscribeVideo
    \/ TranscribeAudioFile
    \/ VerifyAudioPath
    \/ OpenAudio
    \/ CallService
    \/ SaveTranscript
    \/ CloseAudio
    \/ DeleteAudio

Spec == Init /\ [][Next]_vars

\* The credential resolver alone, over the whole of Keys.
InitCred ==
    /\ InitOver(Keys)
    /\ fs_transcript = NoFile
    /\ fs_audio = {}
SetApiKeyCred == SetApiKeyOver(Keys)

NextCred ==
    \/ NewProcess
    \/ SetApiKeyCred

SpecCred == InitCred /\ [][NextCred]_vars

\* ================================================================ claims
Orchestrated == op = "video" \/ (op = "yt" /\ remove_audio)
Ended == pc = "idle" /\ op # "none"

\* C1: when the service raises an authentication error, the error is handled:
\* the call ends in AUTH_FAILED (it does not raise), save_transcript is not
\* invoked, and the transcript file keeps the content it had before the call.
C1_AuthFailureHandled ==
    (outcome = "auth" /\ pc \in {"finally", "delete", "idle"}) =>
        /\ ~saved
        /\ fs_transcript = fileBefore
        /\ (pc = "idle" => result = "AUTH_FAILED")

C1_Witness ==
    /\ Ended /\ outcome = "auth" /\ result = "AUTH_FAILED"
    /\ fileBefore = OldTranscript /\ fs_transcript = OldTranscript

\* C2: when a call ends in TRANSCRIBED, the transcript file holds exactly the
\* text the service returned followed by a single newline, whatever it held.
C2_TranscriptFileContent ==
    (Ended /\ result = "TRANSCRIBED") =>
        fs_transcript = Append(transcript, LF)

C2_Witness ==
    /\ Ended /\ result = "TRANSCRIBED" /\ op \in {"yt", "video"}
    /\ fileBefore = OldTranscript
    /\ transcript = <<"x">> /\ fs_transcript = <<"x", LF>>

\* C3: an orchestrated call that downloaded the audio and ended in TRANSCRIBED
\* or AUTH_FAILED leaves no audio file behind, and the file is still there
\* for as long as the transcription attempt is under way.
C3_AudioDeletedAfterAttempt ==
    /\ (Ended /\ Orchestrated /\ result \in {"TRANSCRIBED", "AUTH_FAILED"}) =>
           ~Exists(DL, fs_audio)
    /\ (op \in {"yt", "video"}
          /\ pc \in {"verify", "open", "call", "else", "finally"}) =>
           (audio_filepath = DL /\ Exists(DL, fs_audio))

C3_Witness ==
    /\ Ended /\ op = "yt" /\ remove_audio /\ result = "AUTH_FAILED"
    /\ ~Exists(DL, fs_audio)

\* C4: transcribe_yt_video with remove_audio set leaves no audio file behind
\* after a failed transcription attempt of any kind, handled or propagating.
C4_AudioDeletedAfterAnyFailure ==
    (Ended /\ impl = "transformers" /\ op = "yt" /\ remove_audio
       /\ result \in {"AUTH_FAILED", "RAISED"}) =>
        ~Exists(DL, fs_audio)

\* The key of the configuration file the process found at construction.
KeyInFile == ParseDotenv(envAtStart)

C7_LaterRunReusesKey ==
    (impl = "transformers" /\ priorKey # None
       /\ lastSet.called /\ lastSet.arg = << >>) =>
        (~lastSet.prompted /\ API_KEY = priorKey)

\* C8 as stated: whenever the service is invoked the active credential is a
\* non-empty string.
C8_AsStated ==
    pc = "call" => (openai_api_key # None /\ openai_api_key # << >>)

\* C8, amended: whenever the service is invoked there is one active
\* credential, openai.api_key; once set_api_key was called in the process it
\* is the credential get_api_key returns, and before that it is what the
\* shell's environment held, if anything.  Nothing makes it non-empty.
C8_ActiveCredential ==
    pc = "call" =>
        /\ lastSet.called => openai_api_key = API_KEY
        /\ ~lastSet.called => openai_api_key = shell_key

C8_Witness ==
    pc = "call" /\ lastSet.called /\ lastSet.prompted /\ openai_api_key = << >>

\* A text-mode read of a file: a carriage return, alone or before a line
\* feed, is read as one line feed.
RECURSIVE ReadText(_)
ReadText(c) ==
    IF c = << >> THEN << >>
    ELSE IF Head(c) = CR
         THEN <<LF>> \o ReadText(IF Len(c) >= 2 /\ c[2] = LF
                                 THEN SubSeq(c, 3, Len(c)) ELSE Tail(c))
         ELSE <<Head(c)>> \o ReadText(Tail(c))

HasCR(t) == \E i \in 1..Len(t) : t[i] = CR
JustSaved == pc = "finally" /\ saved /\ outcome = "ok"

\* C9 as stated: reading the file back after save_transcript wrote S gives S.
C9_AsStated ==
    JustSaved => ReadText(fs_transcript) = transcript

\* C9, amended: after save_transcript wrote S the file holds S and one
\* newline after it; dropping that last newline gives back S, and reading the
\* file gives S followed by a newline whenever S has no carriage return.
C9_SaveThenRead ==
    JustSaved =>
        /\ Len(fs_transcript) = Len(transcript) + 1
        /\ fs_transcript[Len(fs_transcript)] = LF
        /\ SubSeq(fs_transcript, 1, Len(fs_transcript) - 1) = transcript
        /\ ~HasCR(transcript) => ReadText(fs_transcript) = Append(transcript, LF)

C9_Witness ==
    JustSaved /\ fileBefore = OldTranscript /\ transcript = <<"x">>
      /\ ReadText(fs_transcript) = <<"x", LF>>

\* C10: the audio handle is open only inside the transcription step; it is
\* closed when the step is over, however it ended, and before the audio file
\* is removed.
C10_HandleClosed ==
    /\ handle_open => pc \in {"call", "else", "finally"}
    /\ pc \in {"idle", "delete"} => ~handle_open

C10_Witness ==
    Ended /\ result = "RAISED" /\ outcome = "save_error" /\ ~handle_open

\* C11: transcribe_audio_file runs the transcription step only on a path that
\* is on disk.  While the current path is not on disk the only step is another
\* prompt for a path, however many there have been, and the service has not
\* been called; the step starts as soon as the current path exists, and the
\* service is called once, never twice.  An operator who never gives an
\* existing path therefore keeps the call from ending, with no service call.
ViaAudioFile == impl = "transformers" /\ op \in {"file", "yt"}
Missing == audio_filepath \notin fs_audio

C11_Called ==
    /\ calls <= 1
    /\ (ViaAudioFile /\ pc \in {"open", "call", "else", "finally"}) => ~Missing
    /\ (ViaAudioFile /\ pc \in {"verify", "open", "call"}) => calls = 0
    /\ (ViaAudioFile /\ pc \in {"else", "finally", "delete"}) => calls = 1
    /\ (ViaAudioFile /\ Ended /\ result # "FETCH_FAILED") => calls = 1

C11_Loop ==
    (ViaAudioFile /\ pc = "verify") =>
        IF Missing
        THEN /\ pc' = "verify"
             /\ calls' = 0
             /\ prompts' = (IF prompts < MaxPrompts THEN prompts + 1 ELSE prompts)
        ELSE /\ pc' = "open"
             /\ audio_filepath' = audio_filepath
             /\ prompts' = prompts

====
